---- MODULE Spec2Model ----
(***************************************************************************)
(* Configuration utilities of the gateway (src/src/config/utils.ts):       *)
(* the token-list synchronizer (addDefaultToken / removeDefaultToken) and  *)
(* the default-pool registry (getDefaultPools / addDefaultPool /           *)
(* removeDefaultPool) over the configuration store.                        *)
(*                                                                         *)
(* Strings are sequences of symbols, so that case conversion, template     *)
(* concatenation and split() are computed and not assumed.  Token          *)
(* addresses and symbols are sequences of characters; connector strings,   *)
(* token names of pools and configuration paths are sequences of lexemes   *)
(* among which "." and "/" are the separators.                             *)
(***************************************************************************)
EXTENDS Integers, Sequences, FiniteSets, TLC

VARIABLES
    cfg,        \* ConfigManagerV2: the namespaces' configuration trees
    file,       \* the token-list files on disk, by path
    index,      \* the chain clients' in-memory token lists, by network
    pc,         \* position of each in-flight token call
    req,        \* the request each token call was started with
    loc,        \* locals of each token call (path, tokenList, what loadTokens read)
    events,     \* side effects of each call's current/last run, in order
    result,     \* how each call's last run ended
    hist,       \* history: file at call start, overlap with another call, last writer,
                \* and what each process's last successful add read and appended
    calls,      \* number of token calls started
    last        \* the last default-pool operation, its arguments and its outcome

vars == <<cfg, file, index, pc, req, loc, events, result, hist, calls, last>>

tokenVars == <<file, index, pc, req, loc, events, result, hist, calls>>

-----------------------------------------------------------------------------
(* Bounds *)

MaxCalls == 2

Procs == {"p1", "p2"}

-----------------------------------------------------------------------------
(* Strings *)

Str(x) == <<x>>

\* The letters of the model's alphabet; every other character has no case.
LowerLetters == <<"a", "b", "c", "d", "n", "q", "r", "w", "x", "z">>

UpperLetters == <<"A", "B", "C", "D", "N", "Q", "R", "W", "X", "Z">>

LowerChar(c) ==
    IF \E i \in DOMAIN UpperLetters : UpperLetters[i] = c
    THEN LowerLetters[CHOOSE i \in DOMAIN UpperLetters : UpperLetters[i] = c]
    ELSE c

UpperChar(c) ==
    IF \E i \in DOMAIN LowerLetters : LowerLetters[i] = c
    THEN UpperLetters[CHOOSE i \in DOMAIN LowerLetters : LowerLetters[i] = c]
    ELSE c

toLowerCase(s) == [i \in DOMAIN s |-> LowerChar(s[i])]

toUpperCase(s) == [i \in DOMAIN s |-> UpperChar(s[i])]

Range(s) == {s[i] : i \in DOMAIN s}

RECURSIVE SplitFrom(_, _, _, _)
SplitFrom(s, sep, i, cur) ==
    IF i > Len(s) THEN <<cur>>
    ELSE IF s[i] = sep THEN <<cur>> \o SplitFrom(s, sep, i + 1, <<>>)
    ELSE SplitFrom(s, sep, i + 1, Append(cur, s[i]))

\* String.prototype.split(sep)
Split(s, sep) == SplitFrom(s, sep, 1, <<>>)

-----------------------------------------------------------------------------
(* Configuration trees.  A node is absent, a scalar (val) or an object     *)
(* whose keys are kept in insertion order, as Object.keys enumerates them. *)

Absent == [kind |-> "absent", keys |-> <<>>, kids |-> <<>>, val |-> <<>>]

Val(v) == [kind |-> "val", keys |-> <<>>, kids |-> <<>>, val |-> v]

\* A number, kept as the characters of its JSON literal.
Num(v) == [kind |-> "num", keys |-> <<>>, kids |-> <<>>, val |-> v]

EmptyObj == [kind |-> "obj", keys |-> <<>>, kids |-> <<>>, val |-> <<>>]

\* An object from a sequence of <<key, node>> pairs.
Obj(pairs) ==
    [kind |-> "obj",
     keys |-> [i \in DOMAIN pairs |-> pairs[i][1]],
     kids |-> [k \in {pairs[i][1] : i \in DOMAIN pairs} |->
                 pairs[CHOOSE i \in DOMAIN pairs : pairs[i][1] = k][2]],
     val |-> <<>>]

HasKey(node, k) == node.kind = "obj" /\ k \in Range(node.keys)

\* node[k] of JavaScript: undefined when the key is absent.
Child(node, k) == IF HasKey(node, k) THEN node.kids[k] ELSE Absent

\* JavaScript truthiness of a node: objects, non-empty strings and numbers
\* other than zero.
Truthy(node) ==
    \/ node.kind = "obj"
    \/ node.kind = "val" /\ node.val # <<>>
    \/ node.kind = "num" /\ \E i \in DOMAIN node.val : node.val[i] \notin {"0", ".", "-"}

\* Object.keys(node)
ObjectKeys(node) == IF node.kind = "obj" THEN node.keys ELSE <<>>

\* node with key k bound to kid; a new key is appended to the key order.
WithChild(node, k, kid) ==
    [kind |-> "obj",
     keys |-> IF k \in Range(node.keys) THEN node.keys ELSE Append(node.keys, k),
     kids |-> [x \in Range(node.keys) \cup {k} |->
                 IF x = k THEN kid ELSE node.kids[x]],
     val |-> <<>>]

WithoutChild(node, k) ==
    [kind |-> "obj",
     keys |-> SelectSeq(node.keys, LAMBDA x : x # k),
     kids |-> [x \in Range(node.keys) \ {k} |-> node.kids[x]],
     val |-> <<>>]

\* Path Resolver, READ: the terminal node, or absent.
RECURSIVE Resolve(_, _)
Resolve(node, segs) ==
    IF segs = <<>> THEN node
    ELSE IF ~HasKey(node, Head(segs)) THEN Absent
    ELSE Resolve(node.kids[Head(segs)], Tail(segs))

\* Path Resolver, WRITE can descend: no intermediate segment holds a scalar.
RECURSIVE CanWrite(_, _)
CanWrite(node, segs) ==
    IF Len(segs) <= 1 THEN node.kind \in {"absent", "obj"}
    ELSE /\ node.kind \in {"absent", "obj"}
         /\ CanWrite(Child(node, Head(segs)), Tail(segs))

\* Path Resolver, WRITE set: missing intermediate objects are created.
RECURSIVE WriteSet(_, _, _)
WriteSet(node, segs, v) ==
    LET base == IF node.kind = "obj" THEN node ELSE EmptyObj
    IN  IF Len(segs) = 1 THEN WithChild(base, Head(segs), v)
        ELSE WithChild(base, Head(segs),
                       WriteSet(Child(base, Head(segs)), Tail(segs), v))

\* Path Resolver, WRITE remove: an absent path is left alone.
RECURSIVE WriteDelete(_, _)
WriteDelete(node, segs) ==
    IF ~HasKey(node, Head(segs)) THEN node
    ELSE IF Len(segs) = 1 THEN WithoutChild(node, Head(segs))
    ELSE WithChild(node, Head(segs),
                   WriteDelete(node.kids[Head(segs)], Tail(segs)))

-----------------------------------------------------------------------------
(* ConfigManagerV2: one root object whose keys are the namespaces.         *)

Dot == "."

ValidPath(segs) == segs # <<>> /\ \A i \in DOMAIN segs : segs[i] # <<>>

\* ConfigManagerV2.get(path): the node, absent for an unknown namespace or path.
ConfigGet(c, path) == Resolve(c, Split(path, Dot))

\* ConfigManagerV2.getNamespace(name)?.configuration
GetNamespace(c, name) == Child(c, name)

\* ConfigManagerV2.set(path, value): ok is FALSE when the path cannot be
\* written or the namespace could not be persisted; the tree is then as before.
ConfigSetNode(c, path, node, persisted) ==
    LET segs == Split(path, Dot)
    IN  IF ValidPath(segs) /\ CanWrite(c, segs) /\ persisted
        THEN [ok |-> TRUE, cfg |-> WriteSet(c, segs, node)]
        ELSE [ok |-> FALSE, cfg |-> c]

\* ConfigManagerV2.set(path, value) for a string value.
ConfigSet(c, path, v, persisted) == ConfigSetNode(c, path, Val(v), persisted)

\* ConfigManagerV2.delete(path): a no-op, not an error, when the path is
\* already absent; otherwise ok is FALSE when the namespace could not be
\* persisted, and the tree is then as before.
ConfigDelete(c, path, persisted) ==
    LET segs == Split(path, Dot)
    IN  IF ~ValidPath(segs) THEN [ok |-> FALSE, cfg |-> c]
        ELSE IF Resolve(c, segs) = Absent THEN [ok |-> TRUE, cfg |-> c]
        ELSE IF persisted THEN [ok |-> TRUE, cfg |-> WriteDelete(c, segs)]
        ELSE [ok |-> FALSE, cfg |-> c]

TokenListPath == Str("conf/tokens/mainnet.json")

PoolA == Str("0xPOOL")

PoolB == Str("0xP2")

\* The configuration the process starts from.
InitCfg ==
    Obj(<<
      <<Str("ethereum"), Obj(<<
          <<Str("networks"), Obj(<<
              <<Str("mainnet"), Obj(<< <<Str("tokenListSource"), Val(TokenListPath)>> >>)>>,
              <<Str("base"), EmptyObj>> >>)>> >>)>>,
      <<Str("solana"), Obj(<<
          <<Str("networks"), Obj(<<
              <<Str("mainnet-beta"), EmptyObj>>,
              <<Str("devnet"), EmptyObj>> >>)>> >>)>>,
      <<Str("uniswap"), Obj(<<
          <<Str("networks"), Obj(<<
              <<Str("mainnet"), Obj(<<
                    <<Str("amm"), Obj(<< <<<<"WETH", "-", "USDC">>, Val(PoolB)>> >>)>>,
                    <<Str("clmm"), Obj(<< <<<<"WETH", "-", "USDC">>, Val(PoolB)>> >>)>> >>)>>,
              <<Str("base"), Obj(<< <<Str("clmm"),
                    Obj(<< <<<<"WETH", "-", "USDC">>, Val(PoolB)>> >>)>> >>)>> >>)>> >>)>>,
      <<Str("raydium"), Obj(<<
          <<Str("networks"), Obj(<<
              <<Str("devnet"), Obj(<< <<Str("clmm"),
                    Obj(<< <<<<"WETH", "-", "USDC">>, Val(PoolB)>> >>)>> >>)>>,
              <<Str("mainnet-beta"), EmptyObj>> >>)>> >>)>>,
      <<Str("jupiter"), Obj(<< <<Str("allowedSlippage"), Val(Str("1/100"))>> >>)>>,
      <<Str("meteora"), Obj(<< <<Str("networks"), EmptyObj>> >>)>>
    >>)

-----------------------------------------------------------------------------
(* Token lists *)

Token(chainId, address, name, symbol, decimals) ==
    [chainId |-> chainId, address |-> address, name |-> name,
     symbol |-> symbol, decimals |-> decimals]

\* Ethereum.getInstance(network).chainId
ChainIdOf(network) == IF network = Str("mainnet") THEN 1 ELSE 8453

\* File contents: no file, a file that does not parse, or a JSON token array.
Missing == [state |-> "missing", list |-> <<>>]

Corrupt == [state |-> "corrupt", list |-> <<>>]

Parsed(list) == [state |-> "ok", list |-> list]

\* addDefaultToken's duplicate check, comparing letters as written.
ExistingTokenCaseSensitive(tokenList, address, symbol) ==
    \E i \in DOMAIN tokenList :
        \/ tokenList[i].address = address
        \/ tokenList[i].symbol = symbol

\* addDefaultToken's duplicate check, were it to compare addresses only.
ExistingTokenAddressOnly(tokenList, address, symbol) ==
    \E i \in DOMAIN tokenList :
        toLowerCase(tokenList[i].address) = toLowerCase(address)

\* tokenList.find(...) of addDefaultToken is defined.
ExistingToken(tokenList, address, symbol) ==
    \E i \in DOMAIN tokenList :
        \/ toLowerCase(tokenList[i].address) = toLowerCase(address)
        \/ toUpperCase(tokenList[i].symbol) = toUpperCase(symbol)

\* A filter that drops the first matching entry only.
FilterFirstOnly(tokenList, tokenToRemove) ==
    LET n == toLowerCase(tokenToRemove)
        hit(t) == toLowerCase(t.address) = n \/ toLowerCase(t.symbol) = n
        hits == {i \in DOMAIN tokenList : hit(tokenList[i])}
    IN  IF hits = {} THEN tokenList
        ELSE LET f == CHOOSE i \in hits : \A j \in hits : i <= j
             IN  SubSeq(tokenList, 1, f - 1) \o SubSeq(tokenList, f + 1, Len(tokenList))

\* The not-found check, were it to test for an empty result.
NothingRemovedWhenEmpty(tokenList, updatedTokenList) == Len(updatedTokenList) = 0

\* updatedTokenList.length === initialLength
NothingRemoved(tokenList, updatedTokenList) == Len(updatedTokenList) = Len(tokenList)

\* tokenList.filter(...) of removeDefaultToken
FilterTokens(tokenList, tokenToRemove) ==
    LET n == toLowerCase(tokenToRemove)
    IN  SelectSeq(tokenList,
                  LAMBDA t : toLowerCase(t.address) # n /\ toLowerCase(t.symbol) # n)

-----------------------------------------------------------------------------
(* Token calls.  Every await of addDefaultToken / removeDefaultToken is a  *)
(* step boundary; calls of different requests interleave at those points.  *)

EthereumNetworksPath == <<"ethereum", Dot, "networks">>

TokenListSourcePath(network) ==
    <<"ethereum", Dot, "networks", Dot>> \o network \o <<Dot, "tokenListSource">>

\* Object.keys(ConfigManagerV2.getInstance().get('ethereum.networks') || {})
AvailableNetworks(c) ==
    LET n == ConfigGet(c, EthereumNetworksPath)
    IN  ObjectKeys(IF Truthy(n) THEN n ELSE EmptyObj)

NoReq ==
    [op |-> "none", chain |-> <<>>, network |-> <<>>, name |-> <<>>,
     symbol |-> <<>>, address |-> <<>>, decimals |-> 0, token |-> <<>>]

\* parsed and read record that, and what, JSON.parse returned.
NoLoc == [path |-> <<>>, parsed |-> FALSE, read |-> <<>>, tokenList |-> <<>>,
          loaded |-> <<>>]

NoDone == [added |-> FALSE, read |-> <<>>, entry |-> <<>>]

Busy(p) == pc[p] # "idle"

\* A call runs from its last await to the route's return without interruption:
\* no step is taken while a call is at its return.
NoneReturning == \A q \in Procs : pc[q] # "done"

\* A call starts: what the history records about it.
Started(p) ==
    [start   |-> [hist.start EXCEPT ![p] = file],
     overlap |-> [q \in Procs |->
                    IF q = p THEN \E r \in Procs \ {p} : Busy(r)
                    ELSE IF Busy(q) THEN TRUE ELSE hist.overlap[q]],
     writer  |-> hist.writer,
     done    |-> [q \in Procs |-> NoDone]]

\* The call of p ends with the given status (an HTTP error class, or ok).
Finish(p, status) ==
    /\ pc' = [pc EXCEPT ![p] = "done"]
    /\ result' = [result EXCEPT ![p] = status]

Log(p, e) == events' = [events EXCEPT ![p] = Append(@, e)]

\* fse.writeFile(path, JSON.stringify(list)) that succeeds.
Written(p, list) ==
    /\ file' = [file EXCEPT ![loc[p].path] = Parsed(list)]
    /\ hist' = [hist EXCEPT !.writer = p]

\* fse.writeFile that fails; the file is taken to be left as it was.
WriteFailed(p) == UNCHANGED <<file, hist>>

\* addDefaultToken up to its first await (fse.pathExists).
AddStart(p, chain, network, name, symbol, address, decimals) ==
    /\ NoneReturning
    /\ pc[p] = "idle"
    /\ calls < MaxCalls
    /\ calls' = calls + 1
    /\ req' = [req EXCEPT ![p] =
                 [op |-> "add", chain |-> chain, network |-> network, name |-> name,
                  symbol |-> symbol, address |-> address, decimals |-> decimals,
                  token |-> <<>>]]
    /\ events' = [events EXCEPT ![p] = <<>>]
    /\ hist' = Started(p)
    /\ IF network \notin Range(AvailableNetworks(cfg))
       THEN /\ Finish(p, "BadRequest")
            /\ loc' = [loc EXCEPT ![p] = NoLoc]
       ELSE LET tokenListSourcePath == ConfigGet(cfg, TokenListSourcePath(network))
            IN  IF ~Truthy(tokenListSourcePath)
                THEN /\ Finish(p, "Internal")
                     /\ loc' = [loc EXCEPT ![p] = NoLoc]
                ELSE /\ pc' = [pc EXCEPT ![p] = "addPathExists"]
                     /\ result' = [result EXCEPT ![p] = "running"]
                     /\ loc' = [loc EXCEPT ![p] =
                                  [NoLoc EXCEPT !.path = tokenListSourcePath.val]]
    /\ UNCHANGED <<cfg, file, index, last>>

\* After the list is loaded: the duplicate check, up to await Ethereum.getInstance.
AddCheck(p, tokenList) ==
    /\ loc' = [loc EXCEPT ![p].parsed = TRUE, ![p].read = tokenList,
                           ![p].tokenList = tokenList]
    /\ IF ExistingToken(tokenList, req[p].address, req[p].symbol)
       THEN Finish(p, "Conflict")
       ELSE /\ pc' = [pc EXCEPT ![p] = "addGetInstance"]
            /\ UNCHANGED result

\* await fse.pathExists(tokenListSourcePath): a missing file is an empty list.
AddPathExists(p) ==
    /\ NoneReturning
    /\ pc[p] = "addPathExists"
    /\ Log(p, "pathExists")
    /\ IF file[loc[p].path].state = "missing"
       THEN AddCheck(p, <<>>)
       ELSE /\ pc' = [pc EXCEPT ![p] = "addReadFile"]
            /\ UNCHANGED <<loc, result>>
    /\ UNCHANGED <<cfg, file, index, req, hist, calls, last>>

\* await fse.readFile, JSON.parse, then the duplicate check.
AddReadFile(p, readOk) ==
    /\ NoneReturning
    /\ pc[p] = "addReadFile"
    /\ Log(p, "readFile")
    /\ IF readOk /\ file[loc[p].path].state = "ok"
       THEN AddCheck(p, file[loc[p].path].list)
       ELSE /\ Finish(p, "Internal")
            /\ UNCHANGED loc
    /\ UNCHANGED <<cfg, file, index, req, hist, calls, last>>

\* The new token put first (unshift) instead of last.
NewTokenListPrepend(tokenList, r) ==
    <<Token(ChainIdOf(r.network), r.address, r.name, r.symbol, r.decimals)>> \o tokenList

\* The list addDefaultToken writes: the list read, with the new token pushed.
NewTokenList(tokenList, r) ==
    Append(tokenList,
           Token(ChainIdOf(r.network), r.address, r.name, r.symbol, r.decimals))

\* await Ethereum.getInstance(network); chainId; tokenList.push(newToken).
AddGetInstance(p, instanceOk) ==
    /\ NoneReturning
    /\ pc[p] = "addGetInstance"
    /\ Log(p, "getInstance")
    /\ IF instanceOk
       THEN /\ loc' = [loc EXCEPT ![p].tokenList = NewTokenList(@, req[p])]
            /\ pc' = [pc EXCEPT ![p] = "addWriteFile"]
            /\ UNCHANGED result
       ELSE /\ Finish(p, "Internal")
            /\ UNCHANGED loc
    /\ UNCHANGED <<cfg, file, index, req, hist, calls, last>>

\* addDefaultToken's write, were the call to return without reloading the client.
AddWriteFileNoReload(p, writeOk) ==
    /\ NoneReturning
    /\ pc[p] = "addWriteFile"
    /\ Log(p, "writeFile")
    /\ IF writeOk
       THEN /\ Written(p, loc[p].tokenList)
            /\ Finish(p, "ok")
       ELSE /\ WriteFailed(p)
            /\ Finish(p, "Internal")
    /\ UNCHANGED <<cfg, index, req, loc, calls, last>>

\* await fse.writeFile(tokenListSourcePath, JSON.stringify(tokenList, null, 2)).
AddWriteFile(p, writeOk) ==
    /\ NoneReturning
    /\ pc[p] = "addWriteFile"
    /\ Log(p, "writeFile")
    /\ IF writeOk
       THEN /\ Written(p, loc[p].tokenList)
            /\ pc' = [pc EXCEPT ![p] = "loadTokens"]
            /\ UNCHANGED result
       ELSE /\ WriteFailed(p)
            /\ Finish(p, "Internal")
    /\ UNCHANGED <<cfg, index, req, loc, calls, last>>

\* ethereum.loadTokens(path, tokenListType), first half: the client reads the file.
LoadTokensRead(p, loadOk) ==
    /\ NoneReturning
    /\ pc[p] = "loadTokens"
    /\ Log(p, "loadTokens")
    /\ IF loadOk /\ file[loc[p].path].state = "ok"
       THEN /\ loc' = [loc EXCEPT ![p].loaded = file[loc[p].path].list]
            /\ pc' = [pc EXCEPT ![p] = "loadTokensSet"]
            /\ UNCHANGED result
       ELSE /\ Finish(p, "Internal")
            /\ UNCHANGED loc
    /\ UNCHANGED <<cfg, file, index, req, hist, calls, last>>

\* ethereum.loadTokens, second half: the client replaces its token list; the
\* call then returns to the route, which answers 200.
LoadTokensSet(p) ==
    /\ NoneReturning
    /\ pc[p] = "loadTokensSet"
    /\ index' = [index EXCEPT ![req[p].network] = loc[p].loaded]
    /\ Finish(p, "ok")
    /\ UNCHANGED <<cfg, file, req, loc, events, hist, calls, last>>

\* removeDefaultToken up to its first await (fse.pathExists).
RemoveStart(p, chain, network, tokenToRemove) ==
    /\ NoneReturning
    /\ pc[p] = "idle"
    /\ calls < MaxCalls
    /\ calls' = calls + 1
    /\ req' = [req EXCEPT ![p] =
                 [NoReq EXCEPT !.op = "remove", !.chain = chain,
                               !.network = network, !.token = tokenToRemove]]
    /\ events' = [events EXCEPT ![p] = <<>>]
    /\ hist' = Started(p)
    /\ IF network \notin Range(AvailableNetworks(cfg))
       THEN /\ Finish(p, "BadRequest")
            /\ loc' = [loc EXCEPT ![p] = NoLoc]
       ELSE LET tokenListSourcePath == ConfigGet(cfg, TokenListSourcePath(network))
            IN  IF ~Truthy(tokenListSourcePath)
                THEN /\ Finish(p, "Internal")
                     /\ loc' = [loc EXCEPT ![p] = NoLoc]
                ELSE /\ pc' = [pc EXCEPT ![p] = "removePathExists"]
                     /\ result' = [result EXCEPT ![p] = "running"]
                     /\ loc' = [loc EXCEPT ![p] =
                                  [NoLoc EXCEPT !.path = tokenListSourcePath.val]]
    /\ UNCHANGED <<cfg, file, index, last>>

\* !(await fse.pathExists(tokenListSourcePath)): a missing file is an error.
RemovePathExists(p) ==
    /\ NoneReturning
    /\ pc[p] = "removePathExists"
    /\ Log(p, "pathExists")
    /\ IF file[loc[p].path].state = "missing"
       THEN Finish(p, "Internal")
       ELSE /\ pc' = [pc EXCEPT ![p] = "removeReadFile"]
            /\ UNCHANGED result
    /\ UNCHANGED <<cfg, file, index, req, loc, hist, calls, last>>

\* await fse.readFile, JSON.parse, the filter and the not-found check.
RemoveReadFile(p, readOk) ==
    /\ NoneReturning
    /\ pc[p] = "removeReadFile"
    /\ Log(p, "readFile")
    /\ IF readOk /\ file[loc[p].path].state = "ok"
       THEN LET tokenList == file[loc[p].path].list
                updatedTokenList == FilterTokens(tokenList, req[p].token)
            IN  IF NothingRemoved(tokenList, updatedTokenList)
                THEN /\ Finish(p, "NotFound")
                     /\ loc' = [loc EXCEPT ![p].parsed = TRUE, ![p].read = tokenList,
                                            ![p].tokenList = tokenList]
                ELSE /\ loc' = [loc EXCEPT ![p].parsed = TRUE, ![p].read = tokenList,
                                            ![p].tokenList = updatedTokenList]
                     /\ pc' = [pc EXCEPT ![p] = "removeWriteFile"]
                     /\ UNCHANGED result
       ELSE /\ Finish(p, "Internal")
            /\ UNCHANGED loc
    /\ UNCHANGED <<cfg, file, index, req, hist, calls, last>>

\* await fse.writeFile(tokenListSourcePath, JSON.stringify(updatedTokenList, null, 2)).
RemoveWriteFile(p, writeOk) ==
    /\ NoneReturning
    /\ pc[p] = "removeWriteFile"
    /\ Log(p, "writeFile")
    /\ IF writeOk
       THEN /\ Written(p, loc[p].tokenList)
            /\ pc' = [pc EXCEPT ![p] = "removeGetInstance"]
            /\ UNCHANGED result
       ELSE /\ WriteFailed(p)
            /\ Finish(p, "Internal")
    /\ UNCHANGED <<cfg, index, req, loc, calls, last>>

\* removeDefaultToken's end, were the call to return without reloading the client.
RemoveGetInstanceNoReload(p, instanceOk) ==
    /\ NoneReturning
    /\ pc[p] = "removeGetInstance"
    /\ Log(p, "getInstance")
    /\ IF instanceOk THEN Finish(p, "ok") ELSE Finish(p, "Internal")
    /\ UNCHANGED <<cfg, file, index, req, loc, hist, calls, last>>

\* await Ethereum.getInstance(network), after the write.
RemoveGetInstance(p, instanceOk) ==
    /\ NoneReturning
    /\ pc[p] = "removeGetInstance"
    /\ Log(p, "getInstance")
    /\ IF instanceOk
       THEN /\ pc' = [pc EXCEPT ![p] = "loadTokens"]
            /\ UNCHANGED result
       ELSE Finish(p, "Internal")
    /\ UNCHANGED <<cfg, file, index, req, loc, hist, calls, last>>

-----------------------------------------------------------------------------
(* Inputs of the token calls *)

\* <<chain, network>> of a request: networks of the ethereum namespace with and
\* without a token list, a network of no namespace's, and the solana chain with
\* a network that only the ethereum namespace has.
Targets ==
    {<<Str("ethereum"), Str("mainnet")>>, <<Str("ethereum"), Str("base")>>,
     <<Str("ethereum"), Str("goerli")>>, <<Str("solana"), Str("mainnet")>>}

Names == {Str("Tsunami")}

DecimalsIn == {18}

\* <<address, symbol>> of an add request.
NewTokens ==
    {<<<<"x", "A">>, <<"X", "C">>>>, <<<<"x", "c">>, <<"N">>>>}

Identifiers == {<<"X", "c">>, <<"N">>, <<"x", "B">>}

TokenNA == Token(1, <<"x", "a">>, Str("Tsunami"), <<"n">>, 18)

TokenWB == Token(1, <<"x", "b">>, Str("Wrapped"), <<"W">>, 18)

TokenQD == Token(1, <<"x", "d">>, Str("Quad"), <<"X", "B">>, 6)

\* The file the process finds at start: no two entries share an address or a symbol.
InitFiles ==
    {Missing, Corrupt, Parsed(<<TokenNA>>), Parsed(<<TokenWB, TokenQD>>)}

\* No configValue.
NoValue == [type |-> "none", text |-> <<>>]

NoOp ==
    [op |-> "none", connector |-> <<>>, baseToken |-> <<>>, quoteToken |-> <<>>,
     poolAddress |-> <<>>, status |-> "none", value |-> Absent,
     before |-> Absent, afterAdd |-> FALSE, addBefore |-> Absent,
     configPath |-> <<>>, configValue |-> NoValue]

\* No token call has started.
InitTokens ==
    /\ file \in [{TokenListPath} -> InitFiles]
    /\ index = [n \in {Str("mainnet")} |-> file[TokenListPath].list]
    /\ pc = [p \in Procs |-> "idle"]
    /\ req = [p \in Procs |-> NoReq]
    /\ loc = [p \in Procs |-> NoLoc]
    /\ events = [p \in Procs |-> <<>>]
    /\ result = [p \in Procs |-> "none"]
    /\ hist = [start |-> [p \in Procs |-> file],
               overlap |-> [p \in Procs |-> FALSE],
               writer |-> "none",
               done |-> [p \in Procs |-> NoDone]]
    /\ calls = 0

Init ==
    /\ cfg = InitCfg
    /\ InitTokens
    /\ last = NoOp

\* The route handler returns the reply of the call that ended (200 or an error).
Return(p) ==
    /\ pc[p] = "done"
    /\ pc' = [pc EXCEPT ![p] = "idle"]
    /\ req' = [req EXCEPT ![p] = NoReq]
    /\ loc' = [loc EXCEPT ![p] = NoLoc]
    /\ events' = [events EXCEPT ![p] = <<>>]
    /\ result' = [result EXCEPT ![p] = "none"]
    /\ hist' = [hist EXCEPT
                  !.start[p] = file,
                  !.overlap[p] = FALSE,
                  !.done[p] = IF req[p].op = "add" /\ result[p] = "ok" /\ hist.overlap[p]
                              THEN [added |-> TRUE,
                                    read |-> loc[p].read,
                                    entry |-> Token(ChainIdOf(req[p].network), req[p].address,
                                                    req[p].name, req[p].symbol,
                                                    req[p].decimals)]
                              ELSE NoDone]
    /\ UNCHANGED <<cfg, file, index, calls, last>>

TokenNext ==
    \E p \in Procs :
        \/ \E t \in Targets, name \in Names, tok \in NewTokens, decimals \in DecimalsIn :
                AddStart(p, t[1], t[2], name, tok[2], tok[1], decimals)
        \/ AddPathExists(p)
        \/ \E readOk \in BOOLEAN : AddReadFile(p, readOk)
        \/ \E instanceOk \in BOOLEAN : AddGetInstance(p, instanceOk)
        \/ \E writeOk \in BOOLEAN : AddWriteFile(p, writeOk)
        \/ \E t \in Targets, token \in Identifiers : RemoveStart(p, t[1], t[2], token)
        \/ RemovePathExists(p)
        \/ \E readOk \in BOOLEAN : RemoveReadFile(p, readOk)
        \/ \E writeOk \in BOOLEAN : RemoveWriteFile(p, writeOk)
        \/ \E instanceOk \in BOOLEAN : RemoveGetInstance(p, instanceOk)
        \/ \E loadOk \in BOOLEAN : LoadTokensRead(p, loadOk)
        \/ LoadTokensSet(p)
        \/ Return(p)

Spec == Init /\ [][TokenNext]_vars

-----------------------------------------------------------------------------
(* Default pools *)

Slash == "/"

\* const [baseConnector, connectorType] = connector.split('/'); a missing
\* part (undefined) is the empty string: both are falsy.
BaseConnector(connector) == Split(connector, Slash)[1]

ConnectorType(connector) ==
    LET parts == Split(connector, Slash)
    IN  IF Len(parts) >= 2 THEN parts[2] ELSE <<>>

\* `${baseToken}-${quoteToken}`
PairKey(baseToken, quoteToken) == baseToken \o <<"-">> \o quoteToken

\* 'mainnet-beta' when the connector has it, else the first network enumerated.
ActiveNetwork(networks) ==
    IF Truthy(Child(networks, Str("mainnet-beta")))
    THEN Str("mainnet-beta")
    ELSE ObjectKeys(networks)[1]

\* The first network enumerated, whatever the connector has.
ActiveNetworkFirst(networks) == ObjectKeys(networks)[1]

\* `${baseConnector}.networks.${activeNetwork}.${connectorType}.${pairKey}`
PoolConfigPath(baseConnector, activeNetwork, connectorType, pairKey) ==
    baseConnector \o <<Dot, "networks", Dot>> \o activeNetwork \o <<Dot>>
        \o connectorType \o <<Dot>> \o pairKey

\* getDefaultPools, were missing networks an error as in addDefaultPool.
GetDefaultPoolsStrict(c, connector) ==
    LET baseConnector == BaseConnector(connector)
        connectorType == ConnectorType(connector)
        networks == Child(GetNamespace(c, baseConnector), Str("networks"))
    IN  IF baseConnector = <<>> \/ connectorType = <<>>
        THEN [status |-> "BadRequest", value |-> Absent]
        ELSE IF ~Truthy(networks) \/ Len(ObjectKeys(networks)) = 0
        THEN [status |-> "Internal", value |-> Absent]
        ELSE LET pools == Child(Child(networks, ActiveNetwork(networks)), connectorType)
             IN  [status |-> "ok", value |-> IF Truthy(pools) THEN pools ELSE EmptyObj]

\* getDefaultPools(fastify, connector): the reply, or the error thrown.
GetDefaultPools(c, connector) ==
    LET baseConnector == BaseConnector(connector)
        connectorType == ConnectorType(connector)
        connectorConfig == GetNamespace(c, baseConnector)
        networks == Child(connectorConfig, Str("networks"))
    IN  IF baseConnector = <<>> \/ connectorType = <<>>
        THEN [status |-> "BadRequest", value |-> Absent]
        ELSE IF ~Truthy(connectorConfig) \/ ~Truthy(networks)
        THEN [status |-> "ok", value |-> EmptyObj]
        ELSE IF Len(ObjectKeys(networks)) = 0
        THEN [status |-> "ok", value |-> EmptyObj]
        ELSE LET pools == Child(Child(networks, ActiveNetwork(networks)), connectorType)
             IN  [status |-> "ok", value |-> IF Truthy(pools) THEN pools ELSE EmptyObj]

\* addDefaultPool(fastify, connector, baseToken, quoteToken, poolAddress): the
\* outcome and the configuration afterwards.  An omitted poolAddress is <<>>.
AddDefaultPool(c, connector, baseToken, quoteToken, poolAddress, persisted) ==
    LET pairKey == PairKey(baseToken, quoteToken)
        baseConnector == BaseConnector(connector)
        connectorType == ConnectorType(connector)
        connectorConfig == GetNamespace(c, baseConnector)
        networks == Child(connectorConfig, Str("networks"))
    IN  IF poolAddress = <<>> \/ baseConnector = <<>> \/ connectorType = <<>>
        THEN [status |-> "BadRequest", cfg |-> c]
        ELSE IF ~Truthy(connectorConfig) \/ ~Truthy(networks)
                \/ Len(ObjectKeys(networks)) = 0
        THEN [status |-> "Internal", cfg |-> c]
        ELSE LET configPath == PoolConfigPath(baseConnector, ActiveNetwork(networks),
                                              connectorType, pairKey)
                 set == ConfigSet(c, configPath, poolAddress, persisted)
             IN  [status |-> IF set.ok THEN "ok" ELSE "Internal", cfg |-> set.cfg]

\* removeDefaultPool, were it to take the first network enumerated.
RemoveDefaultPoolFirstNetwork(c, connector, baseToken, quoteToken, persisted) ==
    LET pairKey == PairKey(baseToken, quoteToken)
        baseConnector == BaseConnector(connector)
        connectorType == ConnectorType(connector)
        connectorConfig == GetNamespace(c, baseConnector)
        networks == Child(connectorConfig, Str("networks"))
    IN  IF baseConnector = <<>> \/ connectorType = <<>>
        THEN [status |-> "BadRequest", cfg |-> c]
        ELSE IF ~Truthy(connectorConfig) \/ ~Truthy(networks)
                \/ Len(ObjectKeys(networks)) = 0
        THEN [status |-> "Internal", cfg |-> c]
        ELSE LET configPath == PoolConfigPath(baseConnector, ActiveNetworkFirst(networks),
                                              connectorType, pairKey)
                 del == ConfigDelete(c, configPath, persisted)
             IN  [status |-> IF del.ok THEN "ok" ELSE "Internal", cfg |-> del.cfg]

\* removeDefaultPool(fastify, connector, baseToken, quoteToken)
RemoveDefaultPool(c, connector, baseToken, quoteToken, persisted) ==
    LET pairKey == PairKey(baseToken, quoteToken)
        baseConnector == BaseConnector(connector)
        connectorType == ConnectorType(connector)
        connectorConfig == GetNamespace(c, baseConnector)
        networks == Child(connectorConfig, Str("networks"))
    IN  IF baseConnector = <<>> \/ connectorType = <<>>
        THEN [status |-> "BadRequest", cfg |-> c]
        ELSE IF ~Truthy(connectorConfig) \/ ~Truthy(networks)
                \/ Len(ObjectKeys(networks)) = 0
        THEN [status |-> "Internal", cfg |-> c]
        ELSE LET configPath == PoolConfigPath(baseConnector, ActiveNetwork(networks),
                                              connectorType, pairKey)
                 del == ConfigDelete(c, configPath, persisted)
             IN  [status |-> IF del.ok THEN "ok" ELSE "Internal", cfg |-> del.cfg]

Connectors ==
    {<<"uniswap", Slash, "clmm">>,
     <<"raydium", Slash, "clmm">>, <<"uniswap">>, <<"uniswap", Slash>>,
     <<Slash, "clmm">>, <<"jupiter", Slash, "clmm">>, <<"meteora", Slash, "clmm">>,
     <<"orca", Slash, "clmm">>}

BaseTokens == {Str("WETH")}

QuoteTokens == {Str("USDC"), <<"USDC", Dot, "e">>}

PoolAddresses == {PoolA, PoolB, <<>>}

\* GET /config/pools
GetPools(connector) ==
    /\ last' = [NoOp EXCEPT !.op = "get", !.connector = connector,
                            !.status = GetDefaultPools(cfg, connector).status,
                            !.value = GetDefaultPools(cfg, connector).value]
    /\ UNCHANGED <<cfg, tokenVars>>

\* POST /config/pools/add; before records what getDefaultPools returned before it.
AddPool(connector, baseToken, quoteToken, poolAddress, persisted) ==
    LET r == AddDefaultPool(cfg, connector, baseToken, quoteToken, poolAddress, persisted)
    IN  /\ cfg' = r.cfg
        /\ last' = [NoOp EXCEPT !.op = "add", !.connector = connector,
                                !.baseToken = baseToken, !.quoteToken = quoteToken,
                                !.poolAddress = poolAddress, !.status = r.status,
                                !.before = GetDefaultPools(cfg, connector).value]
        /\ UNCHANGED tokenVars

\* POST /config/pools/remove; afterAdd and addBefore record that the operation
\* before it was a successful add of the same pair, and what getDefaultPools
\* returned before that add.
RemovePool(connector, baseToken, quoteToken, persisted) ==
    LET r == RemoveDefaultPool(cfg, connector, baseToken, quoteToken, persisted)
    IN  /\ cfg' = r.cfg
        /\ last' = [NoOp EXCEPT !.op = "remove", !.connector = connector,
                                !.baseToken = baseToken, !.quoteToken = quoteToken,
                                !.status = r.status,
                                !.afterAdd = /\ last.op = "add" /\ last.status = "ok"
                                             /\ last.connector = connector
                                             /\ last.baseToken = baseToken
                                             /\ last.quoteToken = quoteToken,
                                !.addBefore = last.before]
        /\ UNCHANGED tokenVars

PoolInit == Init /\ file[TokenListPath] = Missing

PoolNext ==
    \/ \E connector \in Connectors : GetPools(connector)
    \/ \E connector \in Connectors, baseToken \in BaseTokens, quoteToken \in QuoteTokens,
          poolAddress \in PoolAddresses, persisted \in BOOLEAN :
            AddPool(connector, baseToken, quoteToken, poolAddress, persisted)
    \/ \E connector \in Connectors, baseToken \in BaseTokens, quoteToken \in QuoteTokens,
          persisted \in BOOLEAN :
            RemovePool(connector, baseToken, quoteToken, persisted)

PoolSpec == PoolInit /\ [][PoolNext]_vars

-----------------------------------------------------------------------------
(* Properties of the token calls.  A call is at "done" at the moment it    *)
(* returns: result is its outcome, events the side effects of this run.    *)

EqIgnoreCase(a, b) == toLowerCase(a) = toLowerCase(b)

Has(seq, e) == \E i \in DOMAIN seq : seq[i] = e

Count(seq, e) == Cardinality({i \in DOMAIN seq : seq[i] = e})

Alone(p) == ~hist.overlap[p]

\* The list holds an entry with this address or this symbol, ignoring case.
HoldsEntry(list, address, symbol) ==
    \E i \in DOMAIN list :
        \/ EqIgnoreCase(list[i].address, address)
        \/ EqIgnoreCase(list[i].symbol, symbol)

\* The identifier equals an entry's address or symbol, ignoring case.
Matches(t, id) == EqIgnoreCase(t.address, id) \/ EqIgnoreCase(t.symbol, id)

\* C1: an addToken call that loaded a list holding an entry with the new
\* address or the new symbol (ignoring case) ends with Conflict, has neither
\* written the file nor reloaded the chain client, and, when no other call
\* ran meanwhile, the file is what it was when the call started.
C1_DuplicateIsConflict ==
    \A p \in Procs :
        (/\ pc[p] = "done"
         /\ req[p].op = "add"
         /\ loc[p].parsed
         /\ HoldsEntry(loc[p].read, req[p].address, req[p].symbol))
        => /\ result[p] = "Conflict"
           /\ ~Has(events[p], "writeFile")
           /\ ~Has(events[p], "loadTokens")
           /\ Alone(p) => file = hist.start[p]

\* C1 witness: a Conflict for an address that differs in case only from an
\* entry's, and one for a symbol that differs in case only.
C1_Witness ==
    \E p \in Procs :
        /\ pc[p] = "done" /\ result[p] = "Conflict"
        /\ \E i \in DOMAIN loc[p].read :
              /\ loc[p].read[i].address # req[p].address
              /\ EqIgnoreCase(loc[p].read[i].address, req[p].address)

\* C2: a removeToken call that loaded a list in which no entry's address or
\* symbol equals the identifier (ignoring case) ends with NotFound, has
\* neither written the file nor reloaded the chain client, and, when no
\* other call ran meanwhile, the file is what it was when the call started.
C2_NoMatchIsNotFound ==
    \A p \in Procs :
        (/\ pc[p] = "done"
         /\ req[p].op = "remove"
         /\ loc[p].parsed
         /\ \A i \in DOMAIN loc[p].read : ~Matches(loc[p].read[i], req[p].token))
        => /\ result[p] = "NotFound"
           /\ ~Has(events[p], "writeFile")
           /\ ~Has(events[p], "loadTokens")
           /\ ~Has(events[p], "getInstance")
           /\ Alone(p) => file = hist.start[p]

\* C2 witness: NotFound on a list that is not empty.
C2_Witness ==
    \E p \in Procs :
        /\ pc[p] = "done" /\ result[p] = "NotFound" /\ loc[p].read # <<>>

\* C3 (as claimed): whenever a call ends in an error, whichever step failed,
\* the file holds what it held when the call started (no other call having
\* run meanwhile).
C3_ErrorLeavesFile ==
    \A p \in Procs :
        (pc[p] = "done" /\ result[p] # "ok" /\ Alone(p)) => file = hist.start[p]

\* C4 (as claimed): at the moment a call returns successfully, the chain
\* client's token list equals the list in the file, under every interleaving.
C4_IndexEqualsFileAtReturn ==
    \A p \in Procs :
        (pc[p] = "done" /\ result[p] = "ok")
        => /\ file[loc[p].path].state = "ok"
           /\ index[req[p].network] = file[loc[p].path].list

\* C4 (amended): at the moment a call returns successfully, if no other
\* mutating call was in flight at any time during it, the chain client's
\* token list equals the list in the file.
C4_IndexEqualsFileWhenAlone ==
    \A p \in Procs :
        (pc[p] = "done" /\ result[p] = "ok" /\ Alone(p))
        => /\ file[loc[p].path].state = "ok"
           /\ index[req[p].network] = file[loc[p].path].list

\* C4 witness: a call run alone returns successfully having changed the list.
C4_Witness ==
    \E p \in Procs :
        /\ pc[p] = "done" /\ result[p] = "ok" /\ Alone(p)
        /\ file # hist.start[p]

\* Both processes' last calls were overlapping successful adds of different,
\* non-conflicting tokens that read the same list, and no call started since.
BothAdded(p, q) ==
    /\ p # q
    /\ hist.done[p].added /\ hist.done[q].added
    /\ hist.done[p].read = hist.done[q].read
    /\ ~EqIgnoreCase(hist.done[p].entry.address, hist.done[q].entry.address)
    /\ ~EqIgnoreCase(hist.done[p].entry.symbol, hist.done[q].entry.symbol)

\* C5: two overlapping addToken calls for different tokens that read the
\* same list both return success, and then the file is the list they read
\* followed by the token of the call that wrote last only: the other call's
\* token is lost.
C5_LostUpdate ==
    \A p, q \in Procs :
        (BothAdded(p, q) /\ hist.writer = p)
        => /\ file[TokenListPath] =
                Parsed(Append(hist.done[p].read, hist.done[p].entry))
           /\ ~Has(file[TokenListPath].list, hist.done[q].entry)

\* C5 witness: such an interleaving is reachable.
C5_Witness == \E p, q \in Procs : BothAdded(p, q) /\ hist.writer = p

\* No two entries share an address or a symbol, ignoring case.
UniqueList(list) ==
    \A i, j \in DOMAIN list :
        i # j => /\ ~EqIgnoreCase(list[i].address, list[j].address)
                 /\ ~EqIgnoreCase(list[i].symbol, list[j].symbol)

\* C6: the file starts with no two entries sharing an address or a symbol
\* (ignoring case), and after any interleaving of calls it still has none.
C6_FileStaysUnique ==
    \A f \in DOMAIN file : file[f].state = "ok" => UniqueList(file[f].list)

\* C6 witness: overlapping calls have both written and the file holds
\* several entries, one of them added.
C6_Witness ==
    /\ \E p \in Procs : hist.overlap[p] /\ Has(events[p], "writeFile") /\ hist.writer # p
    /\ hist.writer # "none"
    /\ \E i \in DOMAIN file[TokenListPath].list :
          file[TokenListPath].list[i] \notin {TokenNA, TokenWB, TokenQD}
    /\ Len(file[TokenListPath].list) >= 2

\* C7: a successful addToken run alone leaves the file holding the list it
\* held at the start (empty when there was no file), in order, followed by
\* {chainId of the network's client, address, name, symbol, decimals}, and
\* has invoked loadTokens exactly once, after the write, as its last effect.
C7_AddAppendsAndReloadsOnce ==
    \A p \in Procs :
        (pc[p] = "done" /\ req[p].op = "add" /\ result[p] = "ok" /\ Alone(p))
        => LET before == hist.start[p][loc[p].path]
               previous == IF before.state = "missing" THEN <<>> ELSE before.list
           IN  /\ file[loc[p].path] =
                     Parsed(Append(previous,
                                   [chainId |-> ChainIdOf(req[p].network),
                                    address |-> req[p].address,
                                    name |-> req[p].name,
                                    symbol |-> req[p].symbol,
                                    decimals |-> req[p].decimals]))
               /\ Count(events[p], "loadTokens") = 1
               /\ Count(events[p], "writeFile") = 1
               /\ Len(events[p]) >= 2
               /\ events[p][Len(events[p]) - 1] = "writeFile"
               /\ events[p][Len(events[p])] = "loadTokens"

\* C7 witness: a lone add succeeds on a list of two entries, and one where
\* there was no file.
C7_Witness ==
    \E p \in Procs :
        /\ pc[p] = "done" /\ req[p].op = "add" /\ result[p] = "ok" /\ Alone(p)
        /\ Len(file[loc[p].path].list) = 3

C7_WitnessMissing ==
    \E p \in Procs :
        /\ pc[p] = "done" /\ req[p].op = "add" /\ result[p] = "ok" /\ Alone(p)
        /\ hist.start[p][loc[p].path].state = "missing"

-----------------------------------------------------------------------------
(* Properties of the default pools.  last is the operation that has just   *)
(* run; cfg is the configuration it left.                                  *)

LastPairKey == PairKey(last.baseToken, last.quoteToken)

\* C8 (as claimed): after addDefaultPool(connector, baseToken, quoteToken,
\* poolAddress) succeeds, getDefaultPools(connector) returns a mapping that
\* contains the key baseToken + "-" + quoteToken with value poolAddress.
C8_AddThenGetHasPair ==
    (last.op = "add" /\ last.status = "ok")
    => LET r == GetDefaultPools(cfg, last.connector)
       IN  /\ r.status = "ok"
           /\ HasKey(r.value, LastPairKey)
           /\ r.value.kids[LastPairKey] = Val(last.poolAddress)

\* The pool addresses a mapping holds, each with the path of keys to it.
RECURSIVE Leaves(_, _)
Leaves(node, prefix) ==
    IF node.kind = "val" THEN {<<prefix, node.val>>}
    ELSE IF node.kind = "obj"
    THEN UNION {Leaves(node.kids[k], Append(prefix, k)) : k \in Range(node.keys)}
    ELSE {}

IsPrefix(a, b) == Len(a) <= Len(b) /\ SubSeq(b, 1, Len(a)) = a

\* A successful removeDefaultPool that directly follows a successful
\* addDefaultPool of the same connector and pair.
RemovedAfterAdd == last.op = "remove" /\ last.status = "ok" /\ last.afterAdd

C9_WitnessOverwritten ==
    /\ RemovedAfterAdd
    /\ HasKey(last.addBefore, LastPairKey)
    /\ last.addBefore.kids[LastPairKey].kind = "val"

\* The connector string has nothing before its first "/".
NameMissing(connector) == connector = <<>> \/ connector[1] = Slash

\* The connector string has nothing between its first "/" and the next one or
\* the end, or has no "/".
TypeMissing(connector) ==
    LET slashes == {i \in DOMAIN connector : connector[i] = Slash}
    IN  \/ slashes = {}
        \/ LET f == CHOOSE i \in slashes : \A j \in slashes : i <= j
           IN  f = Len(connector) \/ connector[f + 1] = Slash

\* The text before the first "/".
NameOf(connector) ==
    LET slashes == {i \in DOMAIN connector : connector[i] = Slash}
        f == CHOOSE i \in slashes : \A j \in slashes : i <= j
    IN  SubSeq(connector, 1, f - 1)

UnknownNamespace(c, name) == name \notin Range(c.keys)

NoNetworksKey(c, name) ==
    name \in Range(c.keys) /\ Str("networks") \notin Range(c.kids[name].keys)

EmptyNetworks(c, name) ==
    /\ name \in Range(c.keys)
    /\ Str("networks") \in Range(c.kids[name].keys)
    /\ c.kids[name].kids[Str("networks")].keys = <<>>

\* C10: getDefaultPools fails with a bad request exactly when the name part
\* or the type part of the connector is missing, and never fails otherwise;
\* with both parts given it returns an empty mapping when the namespace is
\* unknown, has no networks key or has an empty networks mapping.
C10_GetDefaultPoolsEmptyOrBadRequest ==
    last.op = "get"
    => /\ last.status \in {"ok", "BadRequest"}
       /\ last.status = "BadRequest"
             <=> (NameMissing(last.connector) \/ TypeMissing(last.connector))
       /\ (/\ ~NameMissing(last.connector)
           /\ ~TypeMissing(last.connector)
           /\ \/ UnknownNamespace(cfg, NameOf(last.connector))
              \/ NoNetworksKey(cfg, NameOf(last.connector))
              \/ EmptyNetworks(cfg, NameOf(last.connector)))
          => last.status = "ok" /\ last.value = EmptyObj

\* C10 witnesses: the three ways a connector has no networks, and the two
\* missing parts.
C10_Witness ==
    /\ last.op = "get" /\ last.status = "ok" /\ last.value = EmptyObj
    /\ ~NameMissing(last.connector) /\ ~TypeMissing(last.connector)
    /\ EmptyNetworks(cfg, NameOf(last.connector))

C10_WitnessUnknown ==
    /\ last.op = "get" /\ last.status = "ok" /\ last.value = EmptyObj
    /\ ~NameMissing(last.connector) /\ ~TypeMissing(last.connector)
    /\ UnknownNamespace(cfg, NameOf(last.connector))

C10_WitnessNoKey ==
    /\ last.op = "get" /\ last.status = "ok" /\ last.value = EmptyObj
    /\ ~NameMissing(last.connector) /\ ~TypeMissing(last.connector)
    /\ NoNetworksKey(cfg, NameOf(last.connector))

C10_WitnessNoName ==
    last.op = "get" /\ last.status = "BadRequest" /\ NameMissing(last.connector)

C10_WitnessNoType ==
    /\ last.op = "get" /\ last.status = "BadRequest"
    /\ ~NameMissing(last.connector) /\ TypeMissing(last.connector)

-----------------------------------------------------------------------------
(* Failures and frame of the default-pool operations.                      *)

\* The connector's namespace has at least one configured network.
HasNetworks(c, connector) ==
    /\ ~NameMissing(connector) /\ ~TypeMissing(connector)
    /\ ~UnknownNamespace(c, NameOf(connector))
    /\ ~NoNetworksKey(c, NameOf(connector))
    /\ ~EmptyNetworks(c, NameOf(connector))

\* C11 (as claimed): addDefaultPool fails with a bad request when poolAddress
\* is omitted or the connector name or type is missing, fails with a
\* NotFound-class error when the connector namespace has no configured
\* networks, and in every failing case leaves the configuration store as it
\* was.
C11_AddFailures ==
    [][last'.op = "add"
       => /\ (\/ last'.poolAddress = <<>>
              \/ NameMissing(last'.connector)
              \/ TypeMissing(last'.connector))
             => last'.status = "BadRequest"
          /\ (/\ last'.poolAddress # <<>>
              /\ ~NameMissing(last'.connector)
              /\ ~TypeMissing(last'.connector)
              /\ ~HasNetworks(cfg, last'.connector))
             => last'.status = "NotFound"
          /\ last'.status # "ok" => cfg' = cfg]_vars

\* C12 (as claimed): removeDefaultPool rejects a connector without name or
\* type as addDefaultPool does and works on the same active network; called
\* for a pair that has no entry in the mapping getDefaultPools returns, it
\* succeeds and leaves that mapping as it was, so that a repeated
\* removeDefaultPool changes nothing.
C12_RemoveAbsentIsNoOp ==
    [][last'.op = "remove"
       => LET pairKey == PairKey(last'.baseToken, last'.quoteToken)
              before == GetDefaultPools(cfg, last'.connector)
              added == AddDefaultPool(cfg, last'.connector, last'.baseToken,
                                      last'.quoteToken, PoolA, TRUE)
          IN  /\ (last'.status = "BadRequest") <=> (added.status = "BadRequest")
              /\ added.status = "ok"
                    => LET removed == RemoveDefaultPool(added.cfg, last'.connector,
                                                        last'.baseToken,
                                                        last'.quoteToken, TRUE)
                       IN  \A l \in Leaves(GetDefaultPools(removed.cfg,
                                                           last'.connector).value, <<>>) :
                               ~IsPrefix(Split(pairKey, Dot), l[1])
              /\ (HasNetworks(cfg, last'.connector) /\ ~HasKey(before.value, pairKey))
                    => /\ last'.status = "ok"
                       /\ GetDefaultPools(cfg', last'.connector).value = before.value
              /\ last'.status = "ok"
                    => RemoveDefaultPool(cfg', last'.connector, last'.baseToken,
                                         last'.quoteToken, TRUE).cfg = cfg']_vars

\* a and b hold the same keys in the same order, and the same node under
\* every key but k.
SameExcept(a, b, k) ==
    /\ ObjectKeys(WithoutChild(a, k)) = ObjectKeys(WithoutChild(b, k))
    /\ \A x \in Range(ObjectKeys(a)) \ {k} : Child(a, x) = Child(b, x)

\* C17 (as claimed): a successful addDefaultPool or removeDefaultPool changes
\* only the entry of the given pair key under the active network and the
\* given connector type; every other namespace, network, connector type and
\* pair entry is as before, and so are the configured networks and hence the
\* active network.
C17_OnlyPairEntryChanges ==
    [][(last'.op \in {"add", "remove"} /\ last'.status = "ok")
       => LET name == NameOf(last'.connector)
              type == ConnectorType(last'.connector)
              pairKey == PairKey(last'.baseToken, last'.quoteToken)
              networks == Child(Child(cfg, name), Str("networks"))
              networksAfter == Child(Child(cfg', name), Str("networks"))
              active == ActiveNetwork(networks)
          IN  /\ SameExcept(cfg, cfg', name)
              /\ SameExcept(Child(cfg, name), Child(cfg', name), Str("networks"))
              /\ ObjectKeys(networks) = ObjectKeys(networksAfter)
              /\ ActiveNetwork(networksAfter) = active
              /\ SameExcept(networks, networksAfter, active)
              /\ SameExcept(Child(networks, active), Child(networksAfter, active), type)
              /\ \A k \in (Range(ObjectKeys(Child(Child(networks, active), type)))
                           \cup Range(ObjectKeys(Child(Child(networksAfter, active), type))))
                          \ {pairKey} :
                    Child(Child(Child(networks, active), type), k)
                    = Child(Child(Child(networksAfter, active), type), k)]_vars

-----------------------------------------------------------------------------
(* Removal and validation of the token calls.                              *)

\* A successful removeToken that ran alone has returned.
RemovedAlone(p) ==
    pc[p] = "done" /\ req[p].op = "remove" /\ result[p] = "ok" /\ Alone(p)

\* C15: a successful removeToken run alone leaves the file holding exactly
\* the entries of the list held at the start whose address and symbol both
\* differ from the identifier ignoring case, in their order, every matching
\* entry being gone; it has written the file once and then reloaded the chain
\* client once, as its last effect.
C15_RemoveDropsEveryMatch ==
    \A p \in Procs :
        RemovedAlone(p)
        => LET previous == hist.start[p][loc[p].path].list
               kept == SelectSeq(previous, LAMBDA t : ~Matches(t, req[p].token))
           IN  /\ file[loc[p].path] = Parsed(kept)
               /\ \A i \in DOMAIN file[loc[p].path].list :
                     ~Matches(file[loc[p].path].list[i], req[p].token)
               /\ Len(kept) < Len(previous)
               /\ Count(events[p], "writeFile") = 1
               /\ Count(events[p], "loadTokens") = 1
               /\ Len(events[p]) >= 3
               /\ events[p][Len(events[p]) - 2] = "writeFile"
               /\ events[p][Len(events[p]) - 1] = "getInstance"
               /\ events[p][Len(events[p])] = "loadTokens"

\* C15 witnesses: a lone remove has dropped two entries that matched the
\* identifier, one by its address and one by its symbol; and one has dropped
\* an entry and kept two others.
C15_Witness ==
    \E p \in Procs :
        /\ RemovedAlone(p)
        /\ Len(hist.start[p][loc[p].path].list) = Len(file[loc[p].path].list) + 2

C15_WitnessKeepsOrder ==
    \E p \in Procs :
        /\ RemovedAlone(p)
        /\ Len(file[loc[p].path].list) >= 2

\* The networks configured in the namespace of the chain of a request.
NetworksOfChain(c, chain) == Range(ObjectKeys(ConfigGet(c, chain \o <<Dot, "networks">>)))

\* An addToken or removeToken call has ended.
Ended(p) == pc[p] = "done"

\* C14 (as claimed): addToken and removeToken check the network against the
\* networks configured in the namespace of the chain of the request; when the
\* network is not configured there the call fails with a bad request, before
\* the file is read or written and before the chain client is contacted.
C14_NetworkOfChainChecked ==
    \A p \in Procs :
        (Ended(p) /\ req[p].network \notin NetworksOfChain(cfg, req[p].chain))
        => result[p] = "BadRequest" /\ events[p] = <<>>

\* No addToken or removeToken call is in flight.
Quiescent == \A p \in Procs : pc[p] \in {"idle", "done"}

\* C16 (as claimed): once every in-flight addToken and removeToken call on
\* the token-list file has completed, the chain client's token list equals
\* the list stored in the file, whatever the interleaving was.
C16_QuiescentIndexEqualsFile ==
    Quiescent => index[Str("mainnet")] = file[TokenListPath].list

-----------------------------------------------------------------------------
(* Configuration updates.  A configValue is a JSON scalar: its type and    *)
(* the characters of the string or of the number's literal.                *)

MaxValueLen == 4

DigitChars == <<"0", "1", "2", "3", "4", "5", "6", "7", "8", "9">>

DigitValue(c) == (CHOOSE i \in DOMAIN DigitChars : DigitChars[i] = c) - 1

\* The natural number a sequence of digits denotes.
RECURSIVE NatValue(_)
NatValue(digits) ==
    IF digits = <<>> THEN 0
    ELSE NatValue(SubSeq(digits, 1, Len(digits) - 1)) * 10 + DigitValue(digits[Len(digits)])

RECURSIVE Pow10(_)
Pow10(n) == IF n = 0 THEN 1 ELSE 10 * Pow10(n - 1)

\* Digits only, at least one.
isNaturalNumberString(str) ==
    str # <<>> /\ \A i \in DOMAIN str : str[i] \in Range(DigitChars)

\* Digits with an optional sign.
isIntegerString(str) ==
    /\ str # <<>>
    /\ isNaturalNumberString(IF str[1] = "-" THEN Tail(str) ELSE str)

\* A numeric string: an integer, or an integer, a point and digits.
isFloatString(str) ==
    \/ isIntegerString(str)
    \/ LET parts == Split(str, Dot)
       IN  /\ Len(parts) = 2
           /\ isIntegerString(parts[1])
           /\ isNaturalNumberString(parts[2])

\* A fraction string "a/b".
isFractionString(str) ==
    LET parts == Split(str, Slash)
    IN  /\ Len(parts) = 2
        /\ isIntegerString(parts[1])
        /\ isNaturalNumberString(parts[2])

\* parseFloat of a numeric string or of a number's literal: sign, numerator
\* and denominator of its value.
parseFloat(str) ==
    LET neg == str[1] = "-"
        parts == Split(IF neg THEN Tail(str) ELSE str, Dot)
        digits == IF Len(parts) = 2 THEN parts[2] ELSE <<>>
    IN  [null |-> FALSE, neg |-> neg,
         num |-> NatValue(parts[1]) * Pow10(Len(digits)) + NatValue(digits),
         den |-> Pow10(Len(digits))]

\* fromFractionString: the value of "a/b", null when it is no fraction.
fromFractionString(str) ==
    IF ~isFractionString(str) \/ NatValue(Split(str, Slash)[2]) = 0
    THEN [null |-> TRUE, neg |-> FALSE, num |-> 0, den |-> 1]
    ELSE LET a == Split(str, Slash)[1]
             neg == a[1] = "-"
         IN  [null |-> FALSE, neg |-> neg,
              num |-> NatValue(IF neg THEN Tail(a) ELSE a),
              den |-> NatValue(Split(str, Slash)[2])]

\* num >= 0.0 && num < 1.0; minus zero compares equal to zero.
InRange(n) == (~n.neg \/ n.num = 0) /\ (n.neg \/ n.num < n.den)

\* As InRange, with 1.0 allowed.
InRangeInclusive(n) == (~n.neg \/ n.num = 0) /\ (n.neg \/ n.num <= n.den)

\* isAllowedPercentage, were 1.0 a permitted percentage.
isAllowedPercentageInclusive(val) ==
    IF val.type = "string"
    THEN IF isFloatString(val.text)
         THEN InRangeInclusive(parseFloat(val.text))
         ELSE LET num == fromFractionString(val.text)
              IN  ~num.null /\ InRangeInclusive(num)
    ELSE InRangeInclusive(parseFloat(val.text))

\* isAllowedPercentage(val)
isAllowedPercentage(val) ==
    IF val.type = "string"
    THEN IF isFloatString(val.text)
         THEN InRange(parseFloat(val.text))
         ELSE LET num == fromFractionString(val.text)
              IN  ~num.null /\ InRange(num)
    ELSE InRange(parseFloat(val.text))

\* String.prototype.endsWith
EndsWith(str, suffix) ==
    /\ Len(str) >= Len(suffix)
    /\ SubSeq(str, Len(str) - Len(suffix) + 1, Len(str)) = suffix

\* validateAllowedSlippage(fastify, configPath, configValue) returns, that
\* is, does not throw the bad request.
validateAllowedSlippage(configPath, configValue) ==
    EndsWith(configPath, Str("allowedSlippage"))
    => /\ \/ configValue.type = "number"
          \/ /\ configValue.type = "string"
             /\ (isFractionString(configValue.text) \/ isFloatString(configValue.text))
       /\ isAllowedPercentage(configValue)

\* The scalar the store holds for a configValue.
ValueNode(configValue) ==
    IF configValue.type = "number" THEN Num(configValue.text) ELSE Val(configValue.text)

\* updateConfig(fastify, configPath, configValue): the outcome and the
\* configuration afterwards.
updateConfig(c, configPath, configValue, persisted) ==
    IF ~validateAllowedSlippage(configPath, configValue)
    THEN [status |-> "BadRequest", cfg |-> c]
    ELSE LET set == ConfigSetNode(c, configPath, ValueNode(configValue), persisted)
         IN  [status |-> IF set.ok THEN "ok" ELSE "Internal", cfg |-> set.cfg]

\* Inputs of updateConfig.
ValueChars == {"0", "1", "5", Dot, Slash, "-"}

Strings == UNION {[1..n -> ValueChars] : n \in 0..MaxValueLen}

NumberLiterals ==
    {<<"0">>, <<"0", Dot, "5">>, <<"0", Dot, "0", "5">>, <<"1">>, <<"1", Dot, "5">>,
     <<"5">>, <<"-", "0">>, <<"-", "0", Dot, "5">>, <<"-", "1">>}

ConfigValues ==
    {[type |-> "string", text |-> t] : t \in Strings}
        \cup {[type |-> "number", text |-> t] : t \in NumberLiterals}
        \cup {[type |-> "boolean", text |-> Str("true")]}

\* Paths that end in allowedSlippage (the last one in its letters only), a
\* path that does not, and a path below a scalar.
ConfigPaths ==
    {<<"jupiter", Dot, "allowedSlippage">>,
     <<"uniswap", Dot, "allowedSlippage">>,
     <<"jupiter", Dot, "max", "allowedSlippage">>,
     <<"jupiter", Dot, "ttl">>,
     <<"jupiter", Dot, "allowedSlippage", Dot, "unit">>}

\* POST /config/update of the request at hand.
UpdateConfig(persisted) ==
    /\ last.op = "request"
    /\ LET r == updateConfig(cfg, last.configPath, last.configValue, persisted)
       IN  /\ cfg' = r.cfg
           /\ last' = [last EXCEPT !.op = "update", !.status = r.status]
    /\ UNCHANGED tokenVars

UpdateInit ==
    /\ cfg = InitCfg
    /\ InitTokens
    /\ file[TokenListPath] = Missing
    /\ last \in {[NoOp EXCEPT !.op = "request", !.configPath = configPath,
                              !.configValue = configValue] :
                    configPath \in ConfigPaths, configValue \in ConfigValues}

UpdateNext == \E persisted \in BOOLEAN : UpdateConfig(persisted)

UpdateSpec == UpdateInit /\ [][UpdateNext]_vars

\* Digits only, at least one; zeros only.
AllDigits(s) == s # <<>> /\ \A i \in DOMAIN s : s[i] \in Range(DigitChars)

AllZeros(s) == \A i \in DOMAIN s : s[i] = "0"

Negative(s) == s # <<>> /\ s[1] = "-"

Unsigned(s) == IF Negative(s) THEN Tail(s) ELSE s

\* s is a numeral, with or without a fractional part, whose value is in
\* [0,1): its whole part is zero, and so is all of it when it is signed.
NumeralInUnit(s) ==
    LET u == Unsigned(s)
        points == {i \in DOMAIN u : u[i] = Dot}
    IN  \/ points = {} /\ AllDigits(u) /\ AllZeros(u)
        \/ \E d \in points :
              /\ points = {d}
              /\ AllDigits(SubSeq(u, 1, d - 1)) /\ AllZeros(SubSeq(u, 1, d - 1))
              /\ AllDigits(SubSeq(u, d + 1, Len(u)))
              /\ Negative(s) => AllZeros(SubSeq(u, d + 1, Len(u)))

\* s is "a/b" with b not zero and 0 <= a/b < 1.
FractionInUnit(s) ==
    LET bars == {i \in DOMAIN s : s[i] = Slash}
    IN  \E d \in bars :
            LET a == SubSeq(s, 1, d - 1)
                b == SubSeq(s, d + 1, Len(s))
            IN  /\ bars = {d}
                /\ AllDigits(Unsigned(a)) /\ AllDigits(b) /\ ~AllZeros(b)
                /\ Negative(a) => AllZeros(Unsigned(a))
                /\ NatValue(Unsigned(a)) < NatValue(b)

\* The values the claim says are accepted.
Acceptable(configValue) ==
    \/ configValue.type = "number" /\ NumeralInUnit(configValue.text)
    \/ configValue.type = "string" /\ NumeralInUnit(configValue.text)
    \/ configValue.type = "string" /\ FractionInUnit(configValue.text)

\* updateConfig has answered a request whose path ends in allowedSlippage.
SlippageUpdated ==
    last.op = "update" /\ EndsWith(last.configPath, Str("allowedSlippage"))

\* C13: for a config path ending in allowedSlippage, updateConfig accepts a
\* value exactly when it is a number in [0,1), a numeric string with value in
\* [0,1) or a fraction string a/b, b not 0, with value in [0,1); every other
\* value is rejected with a bad request and the configuration is then as it
\* was; an accepted value reaches the store's set as given.
C13_SlippageAcceptedIffInUnit ==
    SlippageUpdated
    => /\ (last.status # "BadRequest") <=> Acceptable(last.configValue)
       /\ last.status = "BadRequest" => cfg = InitCfg
       /\ last.status = "ok"
             => ConfigGet(cfg, last.configPath) = ValueNode(last.configValue)

\* C13 witnesses: a fraction string below one has been stored; a fraction
\* string with denominator zero, a numeric string of value one and a number
\* of value one have been rejected.
C13_Witness ==
    /\ SlippageUpdated /\ last.status = "ok"
    /\ last.configValue = [type |-> "string", text |-> <<"1", Slash, "5">>]

C13_WitnessZeroDenominator ==
    /\ SlippageUpdated /\ last.status = "BadRequest"
    /\ last.configValue = [type |-> "string", text |-> <<"1", Slash, "0">>]

C13_WitnessOne ==
    /\ SlippageUpdated /\ last.status = "BadRequest"
    /\ last.configValue = [type |-> "string", text |-> <<"1", Dot, "0">>]

C13_WitnessNumberOne ==
    /\ SlippageUpdated /\ last.status = "BadRequest"
    /\ last.configValue = [type |-> "number", text |-> <<"1">>]

====
